---- MODULE Spec2Model ----
(***************************************************************************)
(* Model of src/Script.js: the expense logger's DOMContentLoaded closure.  *)
(* The state is the closure's `expenses` array together with the parts of  *)
(* the document the script reads and writes (form fields, page and link    *)
(* classes, total text, list children, message box, pending timeouts).     *)
(* Every event listener runs to completion, so each is one action.         *)
(***************************************************************************)
EXTENDS Integers, Sequences, FiniteSets, TLC

VARIABLES
    expenses,      \* let expenses = []                              (line 8)
    form,          \* values of expenseForm's four fields            (line 13)
    activePages,   \* ids of the .page elements carrying 'active'    (line 12)
    activeLinks,   \* .nav-link elements carrying the indigo classes (line 11)
    totalText,     \* totalExpenditureEl.textContent                 (line 14)
    listChildren,  \* children of expenseListEl, in document order   (line 15)
    emptyStateEl,  \* where the #empty-state element found at load is (line 16)
    dateInput,     \* whether getElementById('date') found an element (line 18)
    expenseForm,   \* whether getElementById('expense-form') found one (line 13)
    messageBox,    \* textContent, 'show' class, style.backgroundColor (line 17)
    timers,        \* delay left, in ms, of each pending setTimeout  (line 29)
    clock,         \* ticks of TickMs since the page was loaded
    log            \* calls made by the latest listener (or start-up) run

vars == <<expenses, form, activePages, activeLinks, totalText, listChildren,
          emptyStateEl, dateInput, expenseForm, messageBox, timers, clock, log>>

----------------------------------------------------------------------------
(* Bounds of the model *)

MaxExpenses == 3
MaxTimers == 2
MaxTicks == 1

(* Program and platform constants *)

HideDelay == 2000
MsPerDay == 24 * 60 * 60 * 1000

\* One clock tick of the model is as long as the hide delay.
TickMs == HideDelay


----------------------------------------------------------------------------
(* The document the script runs against *)

PageIds == {"logger-page", "dashboard-page"}

NavLinks == {"nav-logger", "nav-dashboard", "nav-dashboard-mobile"}

\* link.dataset.page
DatasetPage(link) ==
    IF link = "nav-logger" THEN "logger-page" ELSE "dashboard-page"

FailMessage == "Please fill in all fields."
SuccessMessage == "Expense added successfully!"
Red == "#ef4444"
Green == "#22c55e"

\* expenseForm.reset(): every field back to its default value.
BlankForm == [description |-> "", amount |-> <<>>, category |-> "food", date |-> <<>>]

----------------------------------------------------------------------------
(* Date: a date-only ISO string is kept as <<year, month, day>>, the empty  *)
(* string as <<>>.  A time value is kept in whole days since the epoch:     *)
(* new Date("yyyy-mm-dd") is UTC midnight, days * MsPerDay milliseconds.    *)

DaysFromCivil(y, m, d) ==
    LET yy  == IF m <= 2 THEN y - 1 ELSE y
        era == yy \div 400
        yoe == yy - era * 400
        mp  == IF m > 2 THEN m - 3 ELSE m + 9
        doy == (153 * mp + 2) \div 5 + d - 1
        doe == yoe * 365 + yoe \div 4 - yoe \div 100 + doy
    IN  era * 146097 + doe - 719468

CivilFromDays(z0) ==
    LET z   == z0 + 719468
        era == z \div 146097
        doe == z - era * 146097
        yoe == (doe - doe \div 1460 + doe \div 36524 - doe \div 146096) \div 365
        doy == doe - (365 * yoe + yoe \div 4 - yoe \div 100)
        mp  == (5 * doy + 2) \div 153
        d   == doy - (153 * mp + 2) \div 5 + 1
        m   == IF mp < 10 THEN mp + 3 ELSE mp - 9
        y   == yoe + era * 400 + (IF m <= 2 THEN 1 ELSE 0)
    IN  <<y, m, d>>

\* new Date(expense.date), in days
DateValue(date) == DaysFromCivil(date[1], date[2], date[3])

\* new Date(date).toLocaleDateString('en-US', {timeZone: 'UTC'}): m/d/yyyy
ToLocaleDateString(date) ==
    LET c == CivilFromDays(DateValue(date)) IN <<c[2], c[3], c[1]>>

\* The page is loaded on 2024-01-10, one second before UTC midnight, so that
\* the first tick crosses into 2024-01-11.
LoadDay == DaysFromCivil(2024, 1, 10)
LoadMs == MsPerDay - 1000

\* Date.now(): <<day since the epoch, millisecond of that day>>
Now(c) ==
    LET ms == LoadMs + c * TickMs
    IN  <<LoadDay + ms \div MsPerDay, ms % MsPerDay>>

----------------------------------------------------------------------------
(* Natural numbers of any size, for the 53-bit significands of the numbers: *)
(* a sequence of limbs below LimbBase, least significant first, with no     *)
(* zero limb on top; <<>> is zero.                                           *)

LimbBits == 15
LimbBase == 32768

Max(a, b) == IF a >= b THEN a ELSE b
Min(a, b) == IF a <= b THEN a ELSE b

RECURSIVE Pow2(_)
Pow2(n) == IF n = 0 THEN 1 ELSE 2 * Pow2(n - 1)

RECURSIVE Pow10(_)
Pow10(n) == IF n = 0 THEN 1 ELSE 10 * Pow10(n - 1)

RECURSIVE Trim(_)
Trim(a) ==
    IF a # <<>> /\ a[Len(a)] = 0 THEN Trim(SubSeq(a, 1, Len(a) - 1)) ELSE a

RECURSIVE FromInt(_)
FromInt(n) ==
    IF n = 0 THEN <<>> ELSE <<n % LimbBase>> \o FromInt(n \div LimbBase)

\* a + b + c, c a carry
RECURSIVE BigAddC(_, _, _)
BigAddC(a, b, c) ==
    IF a = <<>> /\ b = <<>> THEN (IF c = 0 THEN <<>> ELSE <<c>>)
    ELSE LET x == IF a = <<>> THEN 0 ELSE Head(a)
             y == IF b = <<>> THEN 0 ELSE Head(b)
             t == x + y + c
         IN  <<t % LimbBase>>
             \o BigAddC(IF a = <<>> THEN a ELSE Tail(a),
                        IF b = <<>> THEN b ELSE Tail(b), t \div LimbBase)

BigAdd(a, b) == BigAddC(a, b, 0)

\* the limbs of a - b - c for a >= b + c, c a borrow
RECURSIVE BigSubB(_, _, _)
BigSubB(a, b, c) ==
    IF a = <<>> THEN <<>>
    ELSE LET y == IF b = <<>> THEN 0 ELSE Head(b)
             t == Head(a) - y - c
         IN  <<IF t < 0 THEN t + LimbBase ELSE t>>
             \o BigSubB(Tail(a), IF b = <<>> THEN b ELSE Tail(b),
                        IF t < 0 THEN 1 ELSE 0)

BigSub(a, b) == Trim(BigSubB(a, b, 0))

RECURSIVE CmpFrom(_, _, _)
CmpFrom(a, b, i) ==
    IF i = 0 THEN 0
    ELSE IF a[i] # b[i] THEN (IF a[i] > b[i] THEN 1 ELSE -1)
    ELSE CmpFrom(a, b, i - 1)

\* 1, 0 or -1 as a is greater than, equal to or less than b
BigCmp(a, b) ==
    IF Len(a) # Len(b) THEN (IF Len(a) > Len(b) THEN 1 ELSE -1)
    ELSE CmpFrom(a, b, Len(a))

\* a * m + c for 0 < m <= LimbBase and a carry c < LimbBase
RECURSIVE MulSmallC(_, _, _)
MulSmallC(a, m, c) ==
    IF a = <<>> THEN (IF c = 0 THEN <<>> ELSE <<c>>)
    ELSE LET t == Head(a) * m + c
         IN  <<t % LimbBase>> \o MulSmallC(Tail(a), m, t \div LimbBase)

\* limbs 1..i of the quotient of a by m, and the remainder; r is the
\* remainder of the limbs above i
RECURSIVE DivSmallFrom(_, _, _, _)
DivSmallFrom(a, m, i, r) ==
    IF i = 0 THEN << <<>>, r >>
    ELSE LET t    == r * LimbBase + a[i]
             rest == DivSmallFrom(a, m, i - 1, t % m)
         IN  <<Append(rest[1], t \div m), rest[2]>>

\* <<a \div m, a % m>> for 0 < m < LimbBase
DivSmall(a, m) ==
    LET d == DivSmallFrom(a, m, Len(a), 0) IN <<Trim(d[1]), d[2]>>

RECURSIVE IntBits(_)
IntBits(n) == IF n = 0 THEN 0 ELSE 1 + IntBits(n \div 2)

\* the number of binary digits of a
BitLen(a) ==
    IF a = <<>> THEN 0 ELSE (Len(a) - 1) * LimbBits + IntBits(a[Len(a)])

\* a * 2^k
RECURSIVE ShiftLeft(_, _)
ShiftLeft(a, k) ==
    IF a = <<>> \/ k = 0 THEN a
    ELSE IF k >= LimbBits THEN ShiftLeft(<<0>> \o a, k - LimbBits)
    ELSE MulSmallC(a, Pow2(k), 0)

\* a \div 2^k
RECURSIVE ShiftRight(_, _)
ShiftRight(a, k) ==
    IF a = <<>> \/ k = 0 THEN a
    ELSE IF k >= LimbBits THEN ShiftRight(Tail(a), k - LimbBits)
    ELSE DivSmall(a, Pow2(k))[1]

Odd(a) == a # <<>> /\ a[1] % 2 = 1

\* a * 10^n
RECURSIVE MulPow10(_, _)
MulPow10(a, n) ==
    IF n = 0 \/ a = <<>> THEN a ELSE MulPow10(MulSmallC(a, 10, 0), n - 1)

\* <<a \div 10^n, whether a remainder was left>>, for DivPow10(a, n, FALSE)
RECURSIVE DivPow10(_, _, _)
DivPow10(a, n, sticky) ==
    IF n = 0 \/ (sticky /\ a = <<>>) THEN <<a, sticky>>
    ELSE LET d == DivSmall(a, 10)
         IN  DivPow10(d[1], n - 1, sticky \/ d[2] # 0)

\* a as an integer of the model, for a below LimbBase^2
ToInt(a) ==
    CASE Len(a) = 0 -> 0
      [] Len(a) = 1 -> a[1]
      [] Len(a) = 2 -> a[1] + a[2] * LimbBase

----------------------------------------------------------------------------
(* Numbers: the Number values of the language, IEEE 754 doubles.  A number  *)
(* is a record [isNaN, neg, mant, exp] of value (-1)^neg * mant * 2^exp,    *)
(* mant odd and below 2^53, or mant = <<>> and exp = 0 for the two zeroes.   *)
(* The infinities are left out: an operation that overflows has no value.   *)

NaN == [isNaN |-> TRUE, neg |-> FALSE, mant |-> <<>>, exp |-> 0]

Zero == [isNaN |-> FALSE, neg |-> FALSE, mant |-> <<>>, exp |-> 0]

\* the number (-1)^neg * m * 2^e, for m below 2^53 after its low zero bits
\* are taken off
RECURSIVE Number(_, _, _)
Number(neg, m, e) ==
    IF m = <<>> THEN [isNaN |-> FALSE, neg |-> neg, mant |-> <<>>, exp |-> 0]
    ELSE IF Head(m) = 0 THEN Number(neg, Tail(m), e + LimbBits)
    ELSE IF Head(m) % 2 = 0 THEN Number(neg, DivSmall(m, 2)[1], e + 1)
    ELSE [isNaN |-> FALSE, neg |-> neg, mant |-> m, exp |-> e]

\* The double nearest to (-1)^neg * (n + f) * 2^e, ties to the even
\* significand, where 0 < f < 1 if sticky and f = 0 if not; a sticky n has
\* more than 53 bits.  The significand keeps 53 bits, fewer below 2^-1022.
RoundToDouble(neg, n, e, sticky) ==
    LET d  == Max(BitLen(n) - 53, (0 - 1074) - e)
        q  == ShiftRight(n, d)
        r  == BigSub(n, ShiftLeft(q, d))
        c  == BigCmp(r, ShiftLeft(<<1>>, d - 1))
        up == c > 0 \/ (c = 0 /\ (sticky \/ Odd(q)))
        rq == IF up THEN BigAdd(q, <<1>>) ELSE q
    IN  CASE d <= 0 -> Number(neg, n, e)
          [] d > 0 /\ BitLen(rq) + e + d <= 1024 -> Number(neg, rq, e + d)

\* a + b
Plus(a, b) ==
    IF a.isNaN \/ b.isNaN THEN NaN
    ELSE LET e  == Min(a.exp, b.exp)
             am == ShiftLeft(a.mant, a.exp - e)
             bm == ShiftLeft(b.mant, b.exp - e)
             c  == BigCmp(am, bm)
         IN  IF a.neg = b.neg THEN RoundToDouble(a.neg, BigAdd(am, bm), e, FALSE)
             ELSE IF c = 0 THEN Zero
             ELSE IF c > 0 THEN RoundToDouble(a.neg, BigSub(am, bm), e, FALSE)
             ELSE RoundToDouble(b.neg, BigSub(bm, am), e, FALSE)

Digits == {"0", "1", "2", "3", "4", "5", "6", "7", "8", "9"}

DigitValue(c) ==
    CASE c = "0" -> 0 [] c = "1" -> 1 [] c = "2" -> 2 [] c = "3" -> 3
      [] c = "4" -> 4 [] c = "5" -> 5 [] c = "6" -> 6 [] c = "7" -> 7
      [] c = "8" -> 8 [] c = "9" -> 9

\* The run of digits of s that starts at index i: <<value, digits read>>.
RECURSIVE ScanDigits(_, _, _, _)
ScanDigits(s, i, acc, n) ==
    IF i <= Len(s) /\ s[i] \in Digits
    THEN ScanDigits(s, i + 1, acc * 10 + DigitValue(s[i]), n + 1)
    ELSE <<acc, n>>

\* StrWhiteSpaceChar, the characters parseFloat trims from the front: tab,
\* line feed, form feed, carriage return, space, line tabulation (U+000B),
\* no-break space (U+00A0), ogham space mark (U+1680) and the byte order mark
\* (U+FEFF).  The other sixteen (U+2000 to U+200A, U+2028, U+2029, U+202F,
\* U+205F, U+3000) cannot be written in a string of a module and are not
\* among the texts of the model.
WhiteSpace == {"\t", "\n", "\f", "\r", " ", "", " ", " ", "﻿"}

\* the index of the first character of s, from i on, that is not white space
RECURSIVE SkipSpaces(_, _)
SkipSpaces(s, i) ==
    IF i <= Len(s) /\ s[i] \in WhiteSpace THEN SkipSpaces(s, i + 1) ELSE i

\* s holds word w from index i on
RECURSIVE HasWordAt(_, _, _)
HasWordAt(s, i, w) ==
    \/ w = <<>>
    \/ i <= Len(s) /\ s[i] = Head(w) /\ HasWordAt(s, i + 1, Tail(w))

\* parseFloat(text): the longest prefix that is a decimal literal (digits, a
\* fraction, an exponent), after leading white space, as the nearest double;
\* NaN when there is none.  "Infinity" has no value here (no arm of the CASE
\* takes it), nor has a literal of ten digits or more or one with a power of
\* ten of three digits.
ParseFloat(s) ==
    LET i0    == SkipSpaces(s, 1)
        neg   == i0 <= Len(s) /\ s[i0] = "-"
        i1    == IF i0 <= Len(s) /\ s[i0] \in {"-", "+"} THEN i0 + 1 ELSE i0
        int   == ScanDigits(s, i1, 0, 0)
        i2    == i1 + int[2]
        dot   == i2 <= Len(s) /\ s[i2] = "."
        frac  == IF dot THEN ScanDigits(s, i2 + 1, 0, 0) ELSE <<0, 0>>
        i3    == IF dot THEN i2 + 1 + frac[2] ELSE i2
        hasE  == i3 <= Len(s) /\ s[i3] \in {"e", "E"}
        eneg  == hasE /\ i3 + 1 <= Len(s) /\ s[i3 + 1] = "-"
        i4    == IF hasE /\ i3 + 1 <= Len(s) /\ s[i3 + 1] \in {"-", "+"}
                 THEN i3 + 2 ELSE i3 + 1
        edig  == IF hasE THEN ScanDigits(s, i4, 0, 0) ELSE <<0, 0>>
        exp   == IF eneg THEN 0 - edig[1] ELSE edig[1]
        \* the literal is mant * 10^p10
        mant  == FromInt(int[1] * Pow10(frac[2]) + frac[1])
        p10   == exp - frac[2]
        \* for p10 < 0: mant * 2^k \div 10^-p10 has 56 bits or more
        k     == 56 + 4 * (0 - p10)
        quot  == DivPow10(ShiftLeft(mant, k), 0 - p10, FALSE)
    IN  CASE int[2] = 0 /\ frac[2] = 0
               /\ ~HasWordAt(s, i1, <<"I", "n", "f", "i", "n", "i", "t", "y">>)
               -> NaN
          [] int[2] + frac[2] > 0 /\ p10 \in 0..99
               -> RoundToDouble(neg, MulPow10(mant, p10), 0, FALSE)
          [] int[2] + frac[2] > 0 /\ p10 \in -99..-1
               -> RoundToDouble(neg, quot[1], 0 - k, quot[2])

\* !value for a string
FalsyString(x) == x = ""

\* !value for the date field's value
FalsyDate(d) == d = <<>>

\* !value for a number: NaN, +0 and -0
FalsyNumber(x) == x.isNaN \/ x.mant = <<>>

\* x.toFixed(2) for a number x below LimbBase^2, without the point: the sign, and
\* the integer n for which n / 100 - |x| is as close to zero as possible, the
\* larger n of two, as its digits before and after the point.  The sign is
\* there for every x < 0, also when n is 0.
ToFixed2(x) ==
    LET scaled == MulSmallC(x.mant, 100, 0)
        n == IF x.exp >= 0 THEN ShiftLeft(scaled, x.exp)
             ELSE ShiftRight(BigAdd(scaled, ShiftLeft(<<1>>, (0 - x.exp) - 1)),
                             0 - x.exp)
        d == DivSmall(n, 100)
    IN  IF x.isNaN THEN [neg |-> FALSE, whole |-> "NaN", frac |-> "NaN"]
        ELSE [neg |-> x.neg /\ x.mant # <<>>, whole |-> ToInt(d[1]), frac |-> d[2]]

----------------------------------------------------------------------------
(* The functions of the script, each from a state record to a state record *)

St == [expenses |-> expenses, form |-> form, activePages |-> activePages,
       activeLinks |-> activeLinks, totalText |-> totalText,
       listChildren |-> listChildren, emptyStateEl |-> emptyStateEl,
       dateInput |-> dateInput, expenseForm |-> expenseForm,
       messageBox |-> messageBox, timers |-> timers, clock |-> clock,
       log |-> log]

\* Mutant: the message is shown but no timeout is set to hide it.
showMessage_NoTimeout(s, message) ==
    [s EXCEPT !.messageBox = [@ EXCEPT !.textContent = message, !.show = TRUE],
              !.log = Append(@, <<"showMessage", message>>)]

showMessage(s, message) ==
    [s EXCEPT !.messageBox = [@ EXCEPT !.textContent = message, !.show = TRUE],
              !.timers = Append(@, HideDelay),
              !.log = Append(@, <<"showMessage", message>>)]

setDefaultDate(s) ==
    IF s.dateInput
    THEN [s EXCEPT !.form = [@ EXCEPT !.date = CivilFromDays(Now(s.clock)[1])],
                   !.log = Append(@, <<"setDefaultDate">>)]
    ELSE [s EXCEPT !.log = Append(@, <<"setDefaultDate">>)]

\* Mutant: the other pages are not deactivated first.
showPage_KeepsOthers(s, pageId) ==
    [s EXCEPT !.activePages = @ \cup {pageId},
              !.activeLinks = (@ \cup {l \in NavLinks : DatasetPage(l) = pageId})
                              \ {l \in NavLinks : DatasetPage(l) # pageId},
              !.log = Append(@, <<"showPage", pageId>>)]

\* the ids document.getElementById finds: the elements the script cannot do
\* without, and those of lines 13, 16 and 18 when the document has them
DocumentIds(s) ==
    PageIds \cup {"total-expenditure", "expense-list", "message-box"}
    \cup (IF s.expenseForm THEN {"expense-form"} ELSE {})
    \cup (IF s.dateInput THEN {"date"} ELSE {})
    \cup (IF \/ s.emptyStateEl \in {"inList", "elsewhere"}
              \/ \E i \in DOMAIN s.listChildren : s.listChildren[i][1] = "p"
           THEN {"empty-state"} ELSE {})

\* An element that is found but is no page takes 'active' too; activePages
\* counts the pages only.
showPage(s, pageId) ==
    IF pageId \in DocumentIds(s)
    THEN [s EXCEPT !.activePages = {pageId} \cap PageIds,
                   !.activeLinks = (@ \cup {l \in NavLinks : DatasetPage(l) = pageId})
                                   \ {l \in NavLinks : DatasetPage(l) # pageId},
                   !.log = Append(@, <<"showPage", pageId>>)]
    ELSE \* getElementById gives null: the TypeError ends the run here
         [s EXCEPT !.activePages = {},
                   !.log = Append(@, <<"showPage", pageId>>)]

\* expenses.reduce((sum, expense) => sum + expense.amount, 0)
RECURSIVE ReduceSum(_, _, _)
ReduceSum(xs, i, sum) ==
    IF i > Len(xs) THEN sum ELSE ReduceSum(xs, i + 1, Plus(sum, xs[i].amount))

\* Mutant: the operands are swapped, which sorts oldest first.
CompareFn_Ascending(a, b) == DateValue(a.date) - DateValue(b.date)

\* (a, b) => new Date(b.date) - new Date(a.date), in days
CompareFn(a, b) == DateValue(b.date) - DateValue(a.date)

\* x put into the sorted xs behind every element that does not sort after it
RECURSIVE InsertSorted(_, _)
InsertSorted(xs, x) ==
    IF xs = <<>> THEN <<x>>
    ELSE IF CompareFn(Head(xs), x) <= 0
         THEN <<Head(xs)>> \o InsertSorted(Tail(xs), x)
         ELSE <<x>> \o xs

\* [...expenses].sort(compareFn): a stable sort
RECURSIVE SortFrom(_, _, _)
SortFrom(xs, i, acc) ==
    IF i > Len(xs) THEN acc ELSE SortFrom(xs, i + 1, InsertSorted(acc, xs[i]))

SortedExpenses(xs) == SortFrom(xs, 1, <<>>)

\* the element built for one expense: description, category, date, amount
ExpenseEl(expense) ==
    <<"div", expense.description, expense.category,
      ToLocaleDateString(expense.date), ToFixed2(expense.amount)>>

\* the #empty-state paragraph, the document's own or the fallback
EmptyStateNode == <<"p", "empty-state">>

\* Mutant: the list is not cleared of the placeholder before it is filled.
ListContents_KeepsPlaceholder(xs) ==
    <<EmptyStateNode>>
    \o [i \in 1..Len(xs) |-> ExpenseEl(SortedExpenses(xs)[i])]

\* the children of the list once it has been cleared and filled again
ListContents(xs) ==
    IF Len(xs) = 0 THEN <<EmptyStateNode>>
    ELSE LET sorted == SortedExpenses(xs)
         IN  [i \in 1..Len(sorted) |-> ExpenseEl(sorted[i])]

updateUI(s) ==
    LET total   == ReduceSum(s.expenses, 1, Zero)
        cleared == IF s.emptyStateEl = "inList" THEN "detached" ELSE s.emptyStateEl
    IN  [s EXCEPT
           !.totalText = ToFixed2(total),
           !.listChildren = ListContents(s.expenses),
           !.emptyStateEl =
               IF Len(s.expenses) = 0
               THEN (IF cleared = "absent" THEN "absent" ELSE "inList")
               ELSE cleared,
           !.log = Append(@, <<"updateUI">>)]

\* Mutant: a zero amount is let through (only NaN is turned down).
ValidationFails_ZeroAccepted(description, amount, date) ==
    FalsyString(description) \/ amount.isNaN \/ FalsyDate(date)

\* if (!description || !amount || !date)
ValidationFails(description, amount, date) ==
    FalsyString(description) \/ FalsyNumber(amount) \/ FalsyDate(date)

\* Mutant: the category is read from the form's default, not from the entry.
NewExpense_DefaultCategory(s, description, amount, category, date) ==
    [id |-> Now(s.clock), description |-> description, amount |-> amount,
     category |-> BlankForm.category, date |-> date]

\* const newExpense = { id: Date.now(), description, amount, category, date }
NewExpense(s, description, amount, category, date) ==
    [id |-> Now(s.clock), description |-> description, amount |-> amount,
     category |-> category, date |-> date]

\* Mutant: the UI is rendered before the new expense is stored.
AddExpense_RenderFirst(s, newExpense) ==
    LET s1 == updateUI(s)
        s2 == [s1 EXCEPT !.expenses = Append(@, newExpense),
                         !.log = Append(@, <<"push">>)]
        s3 == [s2 EXCEPT !.form = BlankForm,
                         !.log = Append(@, <<"reset">>)]
        s4 == setDefaultDate(s3)
        s5 == [s4 EXCEPT !.messageBox.backgroundColor = Green]
        s6 == showMessage(s5, SuccessMessage)
    IN  showPage(s6, "dashboard-page")

\* the rest of the listener once the validation has passed
AddExpense(s, newExpense) ==
    LET s1 == [s EXCEPT !.expenses = Append(@, newExpense),
                        !.log = Append(@, <<"push">>)]
        s2 == [s1 EXCEPT !.form = BlankForm,
                         !.log = Append(@, <<"reset">>)]
        s3 == setDefaultDate(s2)
        s4 == updateUI(s3)
        s5 == [s4 EXCEPT !.messageBox.backgroundColor = Green]
        s6 == showMessage(s5, SuccessMessage)
    IN  showPage(s6, "dashboard-page")

handleFormSubmit(s) ==
    LET description == s.form.description
        amount      == ParseFloat(s.form.amount)
        category    == s.form.category
        date        == s.form.date
    IN  IF ValidationFails(description, amount, date)
        THEN LET s1 == showMessage(s, FailMessage)
             IN  [s1 EXCEPT !.messageBox.backgroundColor = Red]
        ELSE AddExpense(s, NewExpense(s, description, amount, category, date))

\* the three start-up calls
Initialization(s) == updateUI(showPage(setDefaultDate(s), "logger-page"))

----------------------------------------------------------------------------
(* Inputs *)

Field(d, a, c, dt) == [description |-> d, amount |-> a, category |-> c, date |-> dt]

Amt070 == <<"0", ".", "7", "0">>
D1 == <<2023, 12, 31>>
D2 == <<2024, 1, 10>>

\* what the user may have entered when the form is submitted; the last one
\* keeps the date the form holds
FormInputs ==
    { Field("Coffee", Amt070, "food", D2),
      Field("Stamp", <<" ", "\t", "1", "e", "-", "1", "a">>, "travel", D1),
      Field("", Amt070, "food", D2),
      Field("Coffee", <<"0", ".", "0", "0">>, "food", D2),
      Field("Coffee", Amt070, "travel", <<>>),
      Field("Coffee", <<"a", "b", "c">>, "food", D2),
      Field("Refund", <<"-", ".", "8">>, "food", form.date) }

----------------------------------------------------------------------------
(* State machine *)

SetState(s) ==
    LET r == s
    IN  /\ expenses' = r.expenses
        /\ form' = r.form
        /\ activePages' = r.activePages
        /\ activeLinks' = r.activeLinks
        /\ totalText' = r.totalText
        /\ listChildren' = r.listChildren
        /\ emptyStateEl' = r.emptyStateEl
        /\ dateInput' = r.dateInput
        /\ expenseForm' = r.expenseForm
        /\ messageBox' = r.messageBox
        /\ timers' = r.timers
        /\ clock' = r.clock
        /\ log' = r.log

\* The document as served, then the start-up calls.
Init ==
    \E pre \in SUBSET PageIds, links \in SUBSET NavLinks,
       es \in {"absent", "inList", "elsewhere"}, di \in BOOLEAN, ef \in BOOLEAN :
        LET s == Initialization(
                   [expenses |-> <<>>, form |-> BlankForm, activePages |-> pre,
                    activeLinks |-> links, totalText |-> ToFixed2(Zero),
                    listChildren |-> IF es = "inList" THEN <<EmptyStateNode>> ELSE <<>>,
                    emptyStateEl |-> es, dateInput |-> di, expenseForm |-> ef,
                    messageBox |-> [textContent |-> "", show |-> FALSE,
                                    backgroundColor |-> ""],
                    timers |-> <<>>, clock |-> 0, log |-> <<>>])
        IN  /\ expenses = s.expenses
            /\ form = s.form
            /\ activePages = s.activePages
            /\ activeLinks = s.activeLinks
            /\ totalText = s.totalText
            /\ listChildren = s.listChildren
            /\ emptyStateEl = s.emptyStateEl
            /\ dateInput = s.dateInput
            /\ expenseForm = s.expenseForm
            /\ messageBox = s.messageBox
            /\ timers = s.timers
            /\ clock = s.clock
            /\ log = s.log

\* The user leaves `fields` in the form and submits it; the listener is there
\* only if the form was found at load.  The model stops taking valid entries
\* at MaxExpenses records and any at MaxTimers timeouts.
Submit(fields) ==
    /\ expenseForm
    /\ \/ Len(expenses) < MaxExpenses
       \/ ValidationFails(fields.description, ParseFloat(fields.amount), fields.date)
    /\ Len(timers) < MaxTimers
    /\ SetState(handleFormSubmit(
           [St EXCEPT !.form = fields, !.log = << <<"submit", fields>> >>]))

\* The click listener of one navigation link.
NavClick(link) ==
    SetState(showPage([St EXCEPT !.log = << <<"click">> >>], DatasetPage(link)))

\* The oldest pending timeout has come due and its callback runs.
TimerFire ==
    /\ timers # <<>>
    /\ Head(timers) = 0
    /\ messageBox' = [messageBox EXCEPT !.show = FALSE]
    /\ timers' = Tail(timers)
    /\ UNCHANGED <<expenses, form, activePages, activeLinks, totalText,
                   listChildren, emptyStateEl, dateInput, expenseForm, clock, log>>

\* what is left of delay d after ms milliseconds
Elapse(d, ms) == IF d > ms THEN d - ms ELSE 0

\* TickMs milliseconds pass; a timeout that is due runs before more time does.
Tick ==
    /\ clock < MaxTicks
    /\ \A i \in DOMAIN timers : timers[i] > 0
    /\ clock' = clock + 1
    /\ timers' = [i \in DOMAIN timers |-> Elapse(timers[i], TickMs)]
    /\ UNCHANGED <<expenses, form, activePages, activeLinks, totalText,
                   listChildren, emptyStateEl, dateInput, expenseForm, messageBox,
                   log>>

Next ==
    \/ \E fields \in FormInputs : Submit(fields)
    \/ \E link \in NavLinks : NavClick(link)
    \/ TimerFire
    \/ Tick

Spec == Init /\ [][Next]_vars

\* The same machine with every submission made before the last tick of the
\* model, so that each timeout can come due within MaxTicks.  The browser runs
\* a timeout's callback once its delay has passed, and time does pass.
NextLive ==
    \/ \E fields \in FormInputs : clock < MaxTicks /\ Submit(fields)
    \/ \E link \in NavLinks : NavClick(link)
    \/ TimerFire
    \/ Tick

SpecLive == Init /\ [][NextLive]_vars /\ WF_vars(TimerFire) /\ WF_vars(Tick)

----------------------------------------------------------------------------
(* Vocabulary of the properties *)

\* the submission is one the validation must turn down
Rejected(f) ==
    \/ f.description = ""
    \/ ParseFloat(f.amount).isNaN
    \/ ParseFloat(f.amount).mant = <<>>
    \/ f.date = <<>>

\* the latest listener run was a submission of f
LastSubmitted(f) == log # <<>> /\ log[1] = <<"submit", f>>

LastWasSubmit == log # <<>> /\ log[1][1] = "submit"

\* the names of the calls of the latest run, in order
Calls == [i \in 1..Len(log) |-> log[i][1]]

IsPrefix(xs, ys) == Len(xs) <= Len(ys) /\ SubSeq(ys, 1, Len(xs)) = xs

\* an amount in whole cents, as an integer (the amounts submitted here are
\* decimal texts of one or two fraction digits)
Cents(x) ==
    LET f == ToFixed2(x)
    IN  IF f.neg THEN 0 - (f.whole * 100 + f.frac) ELSE f.whole * 100 + f.frac

\* the exact sum of the amounts, in cents
RECURSIVE SumAmounts(_)
SumAmounts(xs) ==
    IF xs = <<>> THEN 0
    ELSE Cents(xs[Len(xs)].amount) + SumAmounts(SubSeq(xs, 1, Len(xs) - 1))

\* c cents to two decimals
TwoDecimals(c) ==
    LET a == IF c < 0 THEN 0 - c ELSE c
    IN  [neg |-> c < 0, whole |-> a \div 100, frac |-> a % 100]

\* date a is a strictly earlier calendar date than b (both <<y, m, d>>)
Earlier(a, b) ==
    \/ a[1] < b[1]
    \/ a[1] = b[1] /\ a[2] < b[2]
    \/ a[1] = b[1] /\ a[2] = b[2] /\ a[3] < b[3]

\* the expense entries shown in the list (the placeholder is not one)
Entries == SelectSeq(listChildren, LAMBDA e : e[1] = "div")

PlaceholderShown == \E i \in DOMAIN listChildren : listChildren[i][1] = "p"

\* the calendar date an entry displays, as <<y, m, d>>
EntryDate(e) == <<e[4][3], e[4][1], e[4][2]>>

Bijections(n) ==
    {p \in [1..n -> 1..n] : \A i, j \in 1..n : p[i] = p[j] => i = j}

----------------------------------------------------------------------------
(* C1: a submission with an empty description, an amount text that parses   *)
(* to NaN or to 0, or an empty date is rejected: the expenses, the entered  *)
(* form values, the active view, the total and the list stay as they were,  *)
(* and the message box shows "Please fill in all fields." in red.           *)
C1_RejectedSubmissionChangesNothing ==
    [][\A f \in FormInputs :
         (LastSubmitted(f)' /\ Rejected(f) /\ Submit(f)) =>
            /\ expenses' = expenses
            /\ form' = f
            /\ activePages' = activePages
            /\ activeLinks' = activeLinks
            /\ totalText' = totalText
            /\ listChildren' = listChildren
            /\ messageBox' = [textContent |-> FailMessage, show |-> TRUE,
                              backgroundColor |-> Red]]_vars

C1_Witness ==
    /\ \E f \in FormInputs : LastSubmitted(f) /\ Rejected(f) /\ form = f
                             /\ f.description # "" /\ f.date # <<>>
    /\ Len(expenses) >= 1
    /\ messageBox.backgroundColor = Red
    /\ activePages = {"dashboard-page"}

(* C2: a valid submission appends exactly one record, carrying the submitted *)
(* description, amount, category and date, and every step leaves the records *)
(* already stored where and as they were.                                    *)
C2_AppendOnly ==
    /\ [][\A f \in FormInputs :
            (LastSubmitted(f)' /\ ~Rejected(f) /\ Submit(f)) =>
               /\ Len(expenses') = Len(expenses) + 1
               /\ SubSeq(expenses', 1, Len(expenses)) = expenses
               /\ LET r == expenses'[Len(expenses')]
                  IN  /\ r.description = f.description
                      /\ r.amount = ParseFloat(f.amount)
                      /\ r.category = f.category
                      /\ r.date = f.date]_vars
    /\ [][IsPrefix(expenses, expenses')]_vars

C2_Witness ==
    /\ Len(expenses) = 2
    /\ Calls[2] = "push"
    /\ expenses[1].description = "Coffee"
    /\ expenses[2] = [id |-> <<19733, 1000>>, description |-> "Stamp",
                      amount |-> ParseFloat(<<".", "1">>), category |-> "travel",
                      date |-> <<2023, 12, 31>>]

(* C3: the displayed total is the exact sum of the amounts of all stored     *)
(* records, to two decimals, and is $0.00 while nothing is stored.           *)
C3_TotalIsSum ==
    /\ totalText = TwoDecimals(SumAmounts(expenses))
    /\ expenses = <<>> => totalText = [neg |-> FALSE, whole |-> 0, frac |-> 0]

(* C4: the entries of the list are the stored records, one entry each, in    *)
(* descending order of date; a valid submission dated earlier than the entry *)
(* on top leaves that entry on top.                                          *)
C4_ListSortedByDateDescending ==
    /\ [](/\ Len(Entries) = Len(expenses)
          /\ \E p \in Bijections(Len(expenses)) :
                \A i \in 1..Len(expenses) : Entries[i] = ExpenseEl(expenses[p[i]])
          /\ \A i, j \in 1..Len(Entries) :
                i < j => ~Earlier(EntryDate(Entries[i]), EntryDate(Entries[j])))
    /\ [][\A f \in FormInputs :
            (/\ LastSubmitted(f)' /\ ~Rejected(f) /\ Entries # <<>>
             /\ Earlier(f.date, EntryDate(Entries[1]))
             /\ Submit(f))
            => listChildren'[1] = listChildren[1]]_vars

C4_Witness ==
    /\ Len(expenses) = 2
    /\ Earlier(expenses[1].date, expenses[2].date)
    /\ Entries = <<ExpenseEl(expenses[2]), ExpenseEl(expenses[1])>>
    /\ Entries[1][4] = <<1, 11, 2024>>
    /\ Entries[2][4] = <<12, 31, 2023>>

(* C5: the empty-state placeholder is a child of the list exactly when no    *)
(* expense is stored, and once it is gone it does not come back.             *)
C5_PlaceholderIffEmpty ==
    /\ [](PlaceholderShown <=> expenses = <<>>)
    /\ [](emptyStateEl = "inList" <=>
            (emptyStateEl # "absent" /\ expenses = <<>>))
    /\ [][~PlaceholderShown => ~PlaceholderShown']_vars

C5_Witness ==
    /\ expenses # <<>>
    /\ ~PlaceholderShown
    /\ emptyStateEl = "detached"
    /\ activePages = {"logger-page"}

(* C6: exactly one view is active; it is the one the latest showPage call    *)
(* named, and the links styled active are those of that view.                *)
C6_ExactlyOneActiveView ==
    /\ Cardinality(activePages) = 1
    /\ activePages \subseteq PageIds
    /\ \A p \in activePages : activeLinks = {l \in NavLinks : DatasetPage(l) = p}
    /\ \A i \in DOMAIN log : log[i][1] = "showPage" => activePages = {log[i][2]}

C6_Witness ==
    /\ activePages = {"logger-page"}
    /\ activeLinks = {"nav-logger"}
    /\ log = << <<"click">>, <<"showPage", "logger-page">> >>
    /\ expenses # <<>>

(* C7: no two stored records have the same id.                               *)
C7_UniqueIds ==
    \A i, j \in DOMAIN expenses : i # j => expenses[i].id # expenses[j].id

(* C8: every stored record has a non-empty description, a positive amount    *)
(* and a non-empty date.                                                     *)
C8_RecordsWellFormed ==
    \A i \in DOMAIN expenses :
        /\ expenses[i].description # ""
        /\ ~expenses[i].amount.isNaN /\ ~expenses[i].amount.neg
        /\ expenses[i].amount.mant # <<>>
        /\ expenses[i].date # <<>>

(* C9: a valid submission makes, in this order, one append, one form reset   *)
(* with the default date put back, one render, one success notification and  *)
(* one switch to the dashboard; when it ends the list and the total include  *)
(* the new record and the dashboard is the active view.                      *)
C9_SuccessfulSubmissionSteps ==
    (LastWasSubmit /\ ~Rejected(log[1][2])) =>
        /\ Calls = <<"submit", "push", "reset", "setDefaultDate", "updateUI",
                     "showMessage", "showPage">>
        /\ log[6] = <<"showMessage", SuccessMessage>>
        /\ log[7] = <<"showPage", "dashboard-page">>
        /\ activePages = {"dashboard-page"}
        /\ expenses # <<>>
        /\ \E i \in DOMAIN listChildren :
              listChildren[i] = ExpenseEl(expenses[Len(expenses)])
        /\ Len(Entries) = Len(expenses)
        /\ totalText = ToFixed2(ReduceSum(expenses, 1, Zero))
        /\ form.description = "" /\ form.amount = <<>>
        /\ form.date # <<>> <=> dateInput

C9_Witness ==
    /\ LastWasSubmit /\ ~Rejected(log[1][2])
    /\ Len(expenses) = 2
    /\ Len(log) = 7
    /\ totalText = [neg |-> FALSE, whole |-> 0, frac |-> 80]
    /\ form.date = <<2024, 1, 11>>

(* C10: a notification shows the box with its text and schedules one hide    *)
(* timer; a timer that fires hides the box and changes nothing else; with no *)
(* timer pending the box is hidden; a shown box is eventually hidden.        *)
C10_NotificationsAreHidden ==
    /\ [](timers = <<>> => ~messageBox.show)
    /\ [][\A f \in FormInputs :
            (LastSubmitted(f)' /\ Submit(f)) =>
               /\ messageBox'.show
               /\ messageBox'.textContent =
                     (IF Rejected(f) THEN FailMessage ELSE SuccessMessage)
               /\ timers' = Append(timers, HideDelay)]_vars
    /\ [][TimerFire =>
               /\ ~messageBox'.show
               /\ messageBox'.textContent = messageBox.textContent
               /\ messageBox'.backgroundColor = messageBox.backgroundColor
               /\ Len(timers') = Len(timers) - 1]_vars
    /\ (messageBox.show ~> ~messageBox.show)

C10_Witness ==
    /\ ~messageBox.show
    /\ Len(timers) = 1
    /\ messageBox.textContent = SuccessMessage

====
